---- MODULE Spec2Model ----
(***************************************************************************)
(* The IONOS fleeting plugin: the InstanceGroup controller (Increase,      *)
(* Decrease, Update) in front of the compute API.  The repository holds    *)
(* three drafts of package ionos; the variable `draft` says which one is   *)
(* built:                                                                  *)
(*   "provider.go"  src/provider.go          (no name, no index, no filter)*)
(*   "part_003"     src/unnamed/part_003     (single NIC, Heartbeat)       *)
(*   "part_002"     src/unnamed/part_002     (two NICs, SSH key)           *)
(* Strings that the code cuts or builds (instance names) are sequences of  *)
(* one-character strings; a nil pointer is <<>> and a set pointer <<v>>;   *)
(* a nil error is <<>> and a non-nil error a non-empty sequence of leaves. *)
(***************************************************************************)
EXTENDS Integers, Sequences, FiniteSets, Bags, TLC

VARIABLES draft, config, ServerSpec, settingsKey, instanceCounter, servers,
          call, reqLog, resolved

\* config is the server specification of the plugin configuration, as it was
\* decoded into ServerSpec when the controller was built; resolved says
\* whether a template listing has already given this controller the id of
\* the configured template name
vars == <<draft, config, ServerSpec, settingsKey, instanceCounter, servers,
          call, reqLog, resolved>>

(* ------------------------------ bounds -------------------------------- *)

\* largest delta one Increase call is given
MaxDelta == 2
\* items all Increase calls of one behaviour may start
MaxItems == 3
\* servers the datacenter holds before the provider rejects a create (quota)
MaxServers == 2
\* ids one Decrease call is given
MaxIds == 2
\* network interfaces a server has at most
MaxNics == 2

Threads == {"t1", "t2"}
Drafts == {"provider.go", "part_003", "part_002"}

(* ------------------------------ strings ------------------------------- *)

GitlabRunnerCluster ==
    <<"g","i","t","l","a","b","-","r","u","n","n","e","r","-",
      "c","l","u","s","t","e","r">>
OtherService == <<"o","t","h","e","r","-","s","e","r","v","i","c","e">>

Null == <<>>
Ptr(v) == <<v>>

\* strings.HasPrefix
HasPrefix(s, prefix) ==
    /\ Len(s) >= Len(prefix)
    /\ SubSeq(s, 1, Len(prefix)) = prefix

Digit(d) ==
    CASE d = 0 -> "0" [] d = 1 -> "1" [] d = 2 -> "2" [] d = 3 -> "3"
      [] d = 4 -> "4" [] d = 5 -> "5" [] d = 6 -> "6" [] d = 7 -> "7"
      [] d = 8 -> "8" [] d = 9 -> "9"

RECURSIVE FormatNat(_)
FormatNat(n) ==
    IF n < 10 THEN <<Digit(n)>>
    ELSE FormatNat(n \div 10) \o <<Digit(n % 10)>>

\* the verb %d
FormatD(n) == IF n < 0 THEN <<"-">> \o FormatNat(0 - n) ELSE FormatNat(n)

\* a name built without the index
SprintfNameNoIndex(name, index) == name

\* fmt.Sprintf("%s-%d", name, index)
SprintfName(name, index) == name \o <<"-">> \o FormatD(index)

(* ------------------------------- errors ------------------------------- *)

Nil == <<>>

\* a leaf error: what failed, for which item, and the error it wraps (%w)
Err(msg, item, wraps) == <<[msg |-> msg, item |-> item, wraps |-> wraps]>>

\* fmt.Errorf("<msg>: %w", err)
Errorf(msg, err) == Err(msg, 0, err)

\* errors.Join(err, err2): nil when both are nil, else every non-nil one
errorsJoin(err, err2) == err \o err2

(* ----------------------------- atomic.Int32 --------------------------- *)

Int32Max == 2147483647
Int32Min == (0 - Int32Max) - 1

\* a counter that is read and never advanced
instanceCounterStuck(c) == c

\* atomic.Int32.Add(1): the new value, wrapped to 32 bits
instanceCounterAdd(c) == IF c = Int32Max THEN Int32Min ELSE c + 1

(* --------------------------- configuration ---------------------------- *)

\* a valid CUBE specification configured by template id
BaseSpec ==
    [Type |-> "CUBE", Name |-> GitlabRunnerCluster,
     LanID |-> 1, PrivateLANID |-> 1, PublicLANID |-> 2,
     UserData |-> "#cloud-config", VolumeType |-> "HDD",
     TemplateID |-> "tid-cfg", TemplateName |-> "",
     Cores |-> 0, Ram |-> 0, StorageSize |-> 0,
     Template |-> "tid-cfg"]

ByName == [BaseSpec EXCEPT !.TemplateID = "", !.TemplateName = "cube-xs"]
ByBoth == [BaseSpec EXCEPT !.TemplateName = "cube-xs"]
Enterprise ==
    [BaseSpec EXCEPT !.Type = "ENTERPRISE", !.Name = OtherService,
                     !.TemplateID = "", !.Cores = 2, !.Ram = 2048,
                     !.StorageSize = 10]

ValidSpecs == {BaseSpec, ByName, ByBoth, Enterprise}

InvalidSpecs ==
    {[BaseSpec EXCEPT !.TemplateID = ""],
     [BaseSpec EXCEPT !.Name = <<>>],
     [BaseSpec EXCEPT !.Type = "VCPU"],
     [ByName EXCEPT !.UserData = ""],
     [ByName EXCEPT !.LanID = 0, !.PublicLANID = 0],
     [Enterprise EXCEPT !.Ram = 0]}

\* the ServerSpec values a draft is started with (provider.go reads only
\* UserData, Image and Template of its ExtCreateOpts)
SpecsOf(d) == IF d = "provider.go" THEN {BaseSpec} ELSE ValidSpecs \cup InvalidSpecs

\* settings.Key, by what golang.org/x/crypto/ssh makes of it:
\*   "nil"      no key configured
\*   "garbage"  ssh.ParseRawPrivateKey fails
\*   "dsa"      parsed, but the key type has no Public() method
\*   "p224"     parsed, has Public(), ssh.NewPublicKey rejects the curve
\*   "ed25519"  a key ssh.NewPublicKey accepts
Keys == {"nil", "garbage", "dsa", "p224", "ed25519"}

\* the keys a started controller may hold: part_003 never reads settings.Key,
\* Init of provider.go fails on a key ssh.ParseRawPrivateKey rejects
KeysOf(d) ==
    CASE d = "part_003" -> {"nil"}
      [] d = "provider.go" -> Keys \ {"nil", "garbage"}
      [] OTHER -> Keys

(* ----------------------------- validation ----------------------------- *)

\* validateConfig without the rule on the templates of a CUBE
validateConfigNoCubeRule(spec) ==
    IF spec.Type = "" \/ spec.Name = <<>>
    THEN Err("type, name are required", 0, Nil)
    ELSE IF spec.LanID = 0 \/ spec.UserData = "" \/ spec.VolumeType = ""
    THEN Err("lan_id, user_data, volume_type are required", 0, Nil)
    ELSE IF spec.Type \notin {"ENTERPRISE", "CUBE"}
    THEN Err("type can be 'ENTERPRISE' or 'CUBE'", 0, Nil)
    ELSE IF spec.Type = "ENTERPRISE"
            /\ (spec.Cores = 0 \/ spec.Ram = 0 \/ spec.StorageSize = 0)
    THEN Err("cores, ram and storage_size are required for 'ENTERPRISE' type", 0, Nil)
    ELSE Nil

\* validateConfig of the single-NIC draft
validateConfig003(spec) ==
    IF spec.Type = "" \/ spec.Name = <<>>
    THEN Err("type, name are required", 0, Nil)
    ELSE IF spec.LanID = 0 \/ spec.UserData = "" \/ spec.VolumeType = ""
    THEN Err("lan_id, user_data, volume_type are required", 0, Nil)
    ELSE IF spec.Type \notin {"ENTERPRISE", "CUBE"}
    THEN Err("type can be 'ENTERPRISE' or 'CUBE'", 0, Nil)
    ELSE IF spec.Type = "CUBE" /\ spec.TemplateID = "" /\ spec.TemplateName = ""
    THEN Err("one of template_id/template_name is required for 'CUBE' type", 0, Nil)
    ELSE IF spec.Type = "ENTERPRISE"
            /\ (spec.Cores = 0 \/ spec.Ram = 0 \/ spec.StorageSize = 0)
    THEN Err("cores, ram and storage_size are required for 'ENTERPRISE' type", 0, Nil)
    ELSE Nil

\* a validateConfig of the two-NIC draft that does not look at the private LAN
validateConfigOneLan(spec) ==
    IF spec.Type = "" \/ spec.Name = <<>>
    THEN Err("type, name are required", 0, Nil)
    ELSE IF spec.PublicLANID = 0 \/ spec.UserData = "" \/ spec.VolumeType = ""
    THEN Err("public_lan_id, private_lan_id, user_data, volume_type are required", 0, Nil)
    ELSE IF spec.Type \notin {"ENTERPRISE", "CUBE"}
    THEN Err("type can be 'ENTERPRISE' or 'CUBE'", 0, Nil)
    ELSE IF spec.Type = "CUBE" /\ spec.TemplateID = "" /\ spec.TemplateName = ""
    THEN Err("one of template_id/template_name is required for 'CUBE' type", 0, Nil)
    ELSE IF spec.Type = "ENTERPRISE"
            /\ (spec.Cores = 0 \/ spec.Ram = 0 \/ spec.StorageSize = 0)
    THEN Err("cores, ram and storage_size are required for 'ENTERPRISE' type", 0, Nil)
    ELSE Nil

\* validateConfig of the two-NIC draft
validateConfig002(spec) ==
    IF spec.Type = "" \/ spec.Name = <<>>
    THEN Err("type, name are required", 0, Nil)
    ELSE IF spec.PublicLANID = 0 \/ spec.PrivateLANID = 0
            \/ spec.UserData = "" \/ spec.VolumeType = ""
    THEN Err("public_lan_id, private_lan_id, user_data, volume_type are required", 0, Nil)
    ELSE IF spec.Type \notin {"ENTERPRISE", "CUBE"}
    THEN Err("type can be 'ENTERPRISE' or 'CUBE'", 0, Nil)
    ELSE IF spec.Type = "CUBE" /\ spec.TemplateID = "" /\ spec.TemplateName = ""
    THEN Err("one of template_id/template_name is required for 'CUBE' type", 0, Nil)
    ELSE IF spec.Type = "ENTERPRISE"
            /\ (spec.Cores = 0 \/ spec.Ram = 0 \/ spec.StorageSize = 0)
    THEN Err("cores, ram and storage_size are required for 'ENTERPRISE' type", 0, Nil)
    ELSE Nil

(* -------------------------- template resolver ------------------------- *)

\* what TemplatesApi.TemplatesGet may answer: an error, or a listing
TemplateListings ==
    {<<[Id |-> "tid-0", Name |-> "cube-s"]>>,
     <<[Id |-> "tid-0", Name |-> "cube-s"], [Id |-> "tid-1", Name |-> "cube-xs"]>>}

TemplatesGetReplies ==
    {[ok |-> FALSE, items |-> <<>>]}
        \cup {[ok |-> TRUE, items |-> l] : l \in TemplateListings}

\* getTemplateID: the first template of the listing with that name
getTemplateID(reply, templateName) ==
    IF ~reply.ok
    THEN [id |-> "", err |-> Err("TemplatesGet failed", 0, Nil)]
    ELSE LET hits == {k \in 1..Len(reply.items) : reply.items[k].Name = templateName} IN
         IF hits = {}
         THEN [id |-> "", err |-> Err("template not found", 0, Nil)]
         ELSE [id |-> reply.items[CHOOSE k \in hits : \A j \in hits : k <= j].Id,
               err |-> Nil]

(* ------------------------------ builder ------------------------------- *)

Nic(name, lan) == [Name |-> name, Lan |-> lan]

\* the compute.Server that provider.go posts: no name, fixed type and LAN
postServerDataProvider(spec) ==
    [Name |-> Null, Type |-> Ptr("CUBE"), Cores |-> Null, Ram |-> Null,
     Size |-> Null, TemplateUuid |-> Ptr(spec.Template),
     Nics |-> <<Nic("default", 1)>>]

\* getPostServerData of the single-NIC draft
getPostServerData(spec, index) ==
    [Name |-> Ptr(SprintfName(spec.Name, index)),
     Type |-> Ptr(spec.Type),
     Cores |-> IF spec.Type = "ENTERPRISE" THEN Ptr(spec.Cores) ELSE Null,
     Ram |-> IF spec.Type = "ENTERPRISE" THEN Ptr(spec.Ram) ELSE Null,
     Size |-> IF spec.Type = "ENTERPRISE" THEN Ptr(spec.StorageSize) ELSE Null,
     TemplateUuid |-> IF spec.Type = "CUBE" THEN Ptr(spec.TemplateID) ELSE Null,
     Nics |-> <<Nic("privateNIC", spec.LanID)>>]

\* the SSH part of readServerData: the error it returns for settings.Key
sshKeyError(key) ==
    CASE key = "nil"     -> Err("no private key", 0, Nil)
      [] key = "garbage" -> Errorf("reading private key", Err("ssh: no key found", 0, Nil))
      [] key = "dsa"     -> Err("key doesn't export PublicKey()", 0, Nil)
      [] key = "p224"    -> Errorf("generating ssh public key", Err("ssh: unsupported curve", 0, Nil))
      [] OTHER           -> Nil

\* readServerData of the two-NIC draft: [data, err, listed, why]; `reply` is
\* the answer of the template listing, which is asked for only when listed;
\* why names the part that failed
readServerData(spec, key, index, reply) ==
    LET byName == spec.Type = "CUBE" /\ spec.TemplateID = ""
        tmpl == IF byName THEN getTemplateID(reply, spec.TemplateName)
                ELSE [id |-> spec.TemplateID, err |-> Nil]
    IN  IF tmpl.err # Nil
        THEN [data |-> Null, err |-> tmpl.err, listed |-> byName, why |-> "template"]
        ELSE IF sshKeyError(key) # Nil
        THEN [data |-> Null, err |-> sshKeyError(key), listed |-> byName, why |-> "key"]
        ELSE [data |-> Ptr([Name |-> Ptr(SprintfName(spec.Name, index)),
                 Type |-> Ptr(spec.Type),
                 Cores |-> IF spec.Type = "ENTERPRISE" THEN Ptr(spec.Cores) ELSE Null,
                 Ram |-> IF spec.Type = "ENTERPRISE" THEN Ptr(spec.Ram) ELSE Null,
                 Size |-> IF spec.Type = "ENTERPRISE" THEN Ptr(spec.StorageSize) ELSE Null,
                 TemplateUuid |-> IF spec.Type = "CUBE" THEN Ptr(tmpl.id) ELSE Null,
                 Nics |-> <<Nic("publicNIC", spec.PublicLANID),
                            Nic("privateNIC", spec.PrivateLANID)>>]),
              err |-> Nil, listed |-> byName, why |-> "none"]


(* ------------------------------ provider ------------------------------ *)

\* metadata states of the compute API (the comment in Update lists them)
ProviderStates == {"AVAILABLE", "BUSY", "INACTIVE", "FAILED"}

\* the datacenter: the servers created in it, in listing order, each with its
\* id and its name.  The metadata state of a server is the provider's to
\* change at any time, so it is chosen when a listing is answered.
NewServer(id, req) == [Id |-> id, Name |-> req.Name]

\* datacenters a controller may be started in: empty, or already holding a
\* server of somebody else, which may have been created without a name (as
\* provider.go creates its servers)
InitialDatacenters ==
    {<<>>,
     <<[Id |-> 1, Name |-> Ptr(SprintfName(OtherService, 7))]>>,
     <<[Id |-> 1, Name |-> Null]>>}

\* what DatacentersServersGet may answer: an error, or the servers of the
\* datacenter, each in some state
ServersGetReplies(srv) ==
    {[ok |-> FALSE, items |-> <<>>]}
        \cup {[ok |-> TRUE,
               items |-> [k \in 1..Len(srv) |->
                            [Id |-> srv[k].Id, Name |-> srv[k].Name, State |-> st[k]]]] :
              st \in [1..Len(srv) -> ProviderStates]}

\* server ids a caller may name: those the datacenter can hold and one more
IdPool == 1..(MaxServers + 1)

\* DatacentersServersDelete: accepted only for a server of the datacenter,
\* and then only if the provider is willing.  The provider removes the
\* server some time after it accepted the request; until then the server
\* stays in the listing, in a state of the provider's choosing.
DeleteAccepted(srv, id, willing) ==
    willing /\ \E k \in 1..Len(srv) : srv[k].Id = id

(* ------------------------------- calls -------------------------------- *)

Idle == [op |-> "none", pc |-> "idle"]

\* one Increase call: the locals of the function (delta, succeeded, err, the
\* index and request of the item in flight) and what it has done so far
\* (n items started, the indices it took, the outcome of every create
\* request it issued, the template listings it asked for and how its last
\* template lookup ended: "none", "ok", "failed" or "notfound"); ctx is the
\* context the caller passed, "live" until the caller cancels it, and
\* atCancel the number of items that had been started when it did
NewIncrease(delta) ==
    [op |-> "Increase", pc |-> "loop", delta |-> delta, n |-> 0,
     index |-> 0, req |-> Null, succeeded |-> 0, err |-> Nil,
     validated |-> TRUE, indices |-> <<>>, posts |-> <<>>,
     listings |-> 0, lookup |-> "none", built |-> 0,
     ctx |-> "live", atCancel |-> 0]

\* Increase returning (succeeded, err)
IncreaseReturn(c, succeeded, err) ==
    [c EXCEPT !.pc = "done", !.succeeded = succeeded, !.err = err]

\* how a template lookup that returned err ended
LookupEnd(err) ==
    IF err = Nil THEN "ok"
    ELSE IF err = Err("template not found", 0, Nil) THEN "notfound" ELSE "failed"

\* the first lines of Increase in provider.go: the key checks before the loop
IncreaseEnterProvider(key, delta) ==
    LET c == NewIncrease(delta) IN
    CASE key \in {"nil", "garbage"} ->
            IncreaseReturn([c EXCEPT !.validated = FALSE], 0,
                           Err("ssh: no key found", 0, Nil))
      [] key = "dsa" ->
            IncreaseReturn([c EXCEPT !.validated = FALSE], 0,
                           Err("key doesn't export PublicKey()", 0, Nil))
      [] key = "p224" -> [c EXCEPT !.pc = "panic", !.validated = FALSE]
      [] OTHER -> c

\* the first lines of Increase in the single-NIC draft: validation, then the
\* template id is looked up by name; [call, spec] is the call's state and
\* the ServerSpec it leaves
IncreaseEnter003(spec, delta, reply) ==
    LET c == NewIncrease(delta)
        verr == validateConfig003(spec)
        tmpl == getTemplateID(reply, spec.TemplateName)
    IN  IF verr # Nil
        THEN [call |-> IncreaseReturn([c EXCEPT !.validated = FALSE], 0,
                          Errorf("validating required config", verr)),
              spec |-> spec]
        ELSE IF spec.Type = "CUBE" /\ spec.TemplateName # ""
        THEN [call |-> IF tmpl.err # Nil
                       THEN IncreaseReturn(
                              [c EXCEPT !.listings = 1, !.lookup = LookupEnd(tmpl.err)], 0,
                              Errorf("getting template id from template name", tmpl.err))
                       ELSE [c EXCEPT !.listings = 1, !.lookup = "ok"],
              spec |-> [spec EXCEPT !.TemplateID = tmpl.id]]
        ELSE [call |-> c, spec |-> spec]

\* the first lines of Increase in the two-NIC draft: validation only
IncreaseEnter002(spec, delta) ==
    LET c == NewIncrease(delta)
        verr == validateConfig002(spec)
    IN  IF verr # Nil
        THEN IncreaseReturn([c EXCEPT !.validated = FALSE], 0,
                            Errorf("validating required config", verr))
        ELSE c

\* one iteration of the loop up to the create request, single-NIC draft
IncreaseItem003(c, spec, index) ==
    [c EXCEPT !.n = @ + 1, !.index = index, !.indices = Append(@, index),
              !.req = Ptr(getPostServerData(spec, index)), !.built = @ + 1,
              !.pc = "post"]

\* an iteration of the two-NIC draft that forgets the items created so far
\* when readServerData fails
IncreaseItem002ReturnsZero(c, spec, key, index, reply) ==
    LET r == readServerData(spec, key, index, reply)
        d == [c EXCEPT !.n = @ + 1, !.index = index,
                       !.indices = Append(@, index),
                       !.listings = @ + (IF r.listed THEN 1 ELSE 0),
                       !.lookup = IF r.listed
                                  THEN LookupEnd(IF r.why = "template" THEN r.err ELSE Nil)
                                  ELSE @]
    IN  IF r.err # Nil
        THEN IncreaseReturn(d, 0, Errorf("reading server data", r.err))
        ELSE [d EXCEPT !.err = r.err, !.req = r.data, !.built = @ + 1,
                       !.pc = "post"]

\* one iteration of the loop up to the create request, two-NIC draft: err is
\* assigned the result of readServerData, and a failure returns at once
IncreaseItem002(c, spec, key, index, reply) ==
    LET r == readServerData(spec, key, index, reply)
        d == [c EXCEPT !.n = @ + 1, !.index = index,
                       !.indices = Append(@, index),
                       !.listings = @ + (IF r.listed THEN 1 ELSE 0),
                       !.lookup = IF r.listed
                                  THEN LookupEnd(IF r.why = "template" THEN r.err ELSE Nil)
                                  ELSE @]
    IN  IF r.err # Nil
        THEN IncreaseReturn(d, c.succeeded, Errorf("reading server data", r.err))
        ELSE [d EXCEPT !.err = r.err, !.req = r.data, !.built = @ + 1,
                       !.pc = "post"]

\* one iteration of the loop up to the create request, provider.go
IncreaseItemProvider(c, spec) ==
    [c EXCEPT !.n = @ + 1, !.req = Ptr(postServerDataProvider(spec)),
              !.built = @ + 1, !.pc = "post"]

\* an iteration that returns from Increase when the create call fails
IncreasePostedAbort(c, ok) ==
    IF ok
    THEN [c EXCEPT !.succeeded = @ + 1, !.posts = Append(@, TRUE),
                   !.req = Null, !.pc = "loop"]
    ELSE [c EXCEPT !.err = errorsJoin(@, Err("create", c.n, Nil)),
                   !.posts = Append(@, FALSE), !.req = Null, !.pc = "done"]

\* an iteration that posts the request again when the create call fails
IncreasePostedRetry(c, ok) ==
    IF ok
    THEN [c EXCEPT !.succeeded = @ + 1, !.posts = Append(@, TRUE),
                   !.req = Null, !.pc = "loop"]
    ELSE [c EXCEPT !.err = errorsJoin(@, Err("create", c.n, Nil)),
                   !.posts = Append(@, FALSE)]

\* the rest of the iteration: the answer to DatacentersServersPost
IncreasePosted(c, ok) ==
    IF ok
    THEN [c EXCEPT !.succeeded = @ + 1, !.posts = Append(@, TRUE),
                   !.req = Null, !.pc = "loop"]
    ELSE [c EXCEPT !.err = errorsJoin(@, Err("create", c.n, Nil)),
                   !.posts = Append(@, FALSE), !.req = Null, !.pc = "loop"]


(* ------------------------------- state -------------------------------- *)

Init ==
    /\ draft \in Drafts
    /\ config \in SpecsOf(draft)
    /\ ServerSpec = config
    /\ settingsKey \in KeysOf(draft)
    /\ instanceCounter = 0
    /\ servers \in InitialDatacenters
    /\ call = [t \in Threads |-> Idle]
    /\ reqLog = EmptyBag
    /\ resolved = FALSE

\* a panic ends the process
Alive == \A t \in Threads : call[t].pc # "panic"

\* Increase is the one operation that touches the state of the controller
\* (the instance index, the ServerSpec), so Increase calls are interleaved
\* step by step; the other operations read the datacenter only, and each is
\* run from a state with no call in flight, its result taken by the caller
\* before the next call starts
Quiet == \A t \in Threads : call[t].pc = "idle"
NoResultHeld == \A t \in Threads : call[t].op \in {"none", "Increase"}

RECURSIVE Sum(_, _)
Sum(f, S) == IF S = {} THEN 0
             ELSE LET x == CHOOSE y \in S : TRUE IN f[x] + Sum(f, S \ {x})

\* items the calls in flight have still to start
Pending ==
    Sum([t \in Threads |->
            IF call[t].pc \in {"loop", "post"} THEN call[t].delta - call[t].n ELSE 0],
        Threads)

\* items started so far
Started ==
    IF draft = "provider.go"
    THEN BagCardinality(reqLog) + Cardinality({t \in Threads : call[t].pc = "post"})
    ELSE instanceCounter

(* ------------------------------ Increase ------------------------------ *)

IncreaseCall(t) ==
    /\ Alive /\ NoResultHeld
    /\ call[t].pc = "idle"
    /\ \E delta \in 0..MaxDelta :
        /\ Started + Pending + delta <= MaxItems
        /\ \/ /\ draft = "provider.go"
              /\ call' = [call EXCEPT ![t] = IncreaseEnterProvider(settingsKey, delta)]
              /\ UNCHANGED ServerSpec
           \/ /\ draft = "part_003"
              /\ \E reply \in TemplatesGetReplies :
                    LET r == IncreaseEnter003(ServerSpec, delta, reply) IN
                    /\ call' = [call EXCEPT ![t] = r.call]
                    /\ ServerSpec' = r.spec
           \/ /\ draft = "part_002"
              /\ call' = [call EXCEPT ![t] = IncreaseEnter002(ServerSpec, delta)]
              /\ UNCHANGED ServerSpec
    /\ resolved' = (resolved \/ call'[t].lookup = "ok")
    /\ UNCHANGED <<draft, config, settingsKey, instanceCounter, servers, reqLog>>

IncreaseItem(t) ==
    /\ Alive
    /\ call[t].op = "Increase" /\ call[t].pc = "loop"
    /\ call[t].n < call[t].delta
    /\ \/ /\ draft = "provider.go"
          /\ call' = [call EXCEPT ![t] = IncreaseItemProvider(@, ServerSpec)]
          /\ UNCHANGED instanceCounter
       \/ /\ draft = "part_003"
          /\ instanceCounter' = instanceCounterAdd(instanceCounter)
          /\ call' = [call EXCEPT ![t] = IncreaseItem003(@, ServerSpec, instanceCounter')]
       \/ /\ draft = "part_002"
          /\ instanceCounter' = instanceCounterAdd(instanceCounter)
          /\ \E reply \in TemplatesGetReplies :
                call' = [call EXCEPT ![t] =
                           IncreaseItem002(@, ServerSpec, settingsKey,
                                           instanceCounter', reply)]
    /\ resolved' = (resolved \/ call'[t].lookup = "ok")
    /\ UNCHANGED <<draft, config, ServerSpec, settingsKey, servers, reqLog>>

\* the context was cancelled before the item in flight was started: the
\* request made with it fails without reaching the provider
CtxDoneBeforeItem(c) == c.ctx = "cancelled" /\ c.n > c.atCancel

IncreasePost(t) ==
    /\ Alive
    /\ call[t].op = "Increase" /\ call[t].pc = "post"
    /\ \E ok \in BOOLEAN :
        /\ ok => Len(servers) < MaxServers
        /\ ok => ~CtxDoneBeforeItem(call[t])
        /\ call' = [call EXCEPT ![t] = IncreasePosted(@, ok)]
        /\ servers' = IF ok
                      THEN Append(servers, NewServer(Len(servers) + 1, call[t].req[1]))
                      ELSE servers
    /\ reqLog' = reqLog (+) SetToBag({[index |-> call[t].index,
                                        req |-> call[t].req[1]]})
    /\ UNCHANGED <<draft, config, ServerSpec, settingsKey, instanceCounter, resolved>>

IncreaseEnd(t) ==
    /\ Alive
    /\ call[t].op = "Increase" /\ call[t].pc = "loop"
    /\ call[t].n = call[t].delta
    /\ call' = [call EXCEPT ![t] = IncreaseReturn(@, @.succeeded, @.err)]
    /\ UNCHANGED <<draft, config, ServerSpec, settingsKey, instanceCounter, servers,
                   reqLog, resolved>>

\* the caller cancels the context of an Increase that is running
Cancel(t) ==
    /\ Alive
    /\ call[t].op = "Increase" /\ call[t].pc \in {"loop", "post"}
    /\ call[t].ctx = "live"
    /\ call' = [call EXCEPT ![t] = [@ EXCEPT !.ctx = "cancelled",
                                              !.atCancel = call[t].n]]
    /\ UNCHANGED <<draft, config, ServerSpec, settingsKey, instanceCounter, servers,
                   reqLog, resolved>>

\* the caller takes the result
Return(t) ==
    /\ Alive
    /\ call[t].pc = "done"
    /\ call' = [call EXCEPT ![t] = Idle]
    /\ UNCHANGED <<draft, config, ServerSpec, settingsKey, instanceCounter, servers,
                   reqLog, resolved>>


(* ------------------------------- Update ------------------------------- *)

\* the switch of Update in provider.go: the state handed to fn, if any
mapStateProvider(state) ==
    CASE state = "AVAILABLE" -> Ptr("Running")
      [] state = "BUSY"      -> Ptr("Deleting")
      [] state = "INACTIVE"  -> Ptr("Deleting")
      [] OTHER               -> Null

\* the switch of Update in the two later drafts
mapState(state) ==
    CASE state = "AVAILABLE" -> Ptr("Running")
      [] state = "BUSY"      -> Ptr("Creating")
      [] state = "INACTIVE"  -> Ptr("Deleted")
      [] OTHER               -> Null

\* the loop of Update in provider.go over the listed instances: the calls of
\* fn, in order
RECURSIVE UpdateLoopProvider(_)
UpdateLoopProvider(items) ==
    IF items = <<>> THEN [cb |-> <<>>, panic |-> FALSE]
    ELSE LET rest == UpdateLoopProvider(Tail(items))
             st == mapStateProvider(Head(items).State)
         IN  IF st = Null THEN rest
             ELSE [rest EXCEPT !.cb = <<[id |-> Head(items).Id, state |-> st[1]]>> \o @]

\* the loop of Update in the two later drafts: an instance whose name lacks
\* the prefix "gitlab-runner-cluster" is passed over; the name of an
\* instance that has none is a nil pointer, and reading it panics
RECURSIVE UpdateLoop(_)
UpdateLoop(items) ==
    IF items = <<>> THEN [cb |-> <<>>, panic |-> FALSE]
    ELSE IF Head(items).Name = Null THEN [cb |-> <<>>, panic |-> TRUE]
    ELSE LET rest == UpdateLoop(Tail(items))
             st == mapState(Head(items).State)
         IN  IF ~HasPrefix(Head(items).Name[1], GitlabRunnerCluster) \/ st = Null
             THEN rest
             ELSE [rest EXCEPT !.cb = <<[id |-> Head(items).Id, state |-> st[1]]>> \o @]

\* Update: the listing is asked for once; an error is returned as it is
UpdateResult(d, reply) ==
    LET r == IF d = "provider.go" THEN UpdateLoopProvider(reply.items)
             ELSE UpdateLoop(reply.items)
    IN  IF ~reply.ok
        THEN [op |-> "Update", pc |-> "done", reply |-> reply, cb |-> <<>>,
              err |-> Err("DatacentersServersGet", 0, Nil)]
        ELSE [op |-> "Update", pc |-> IF r.panic THEN "panic" ELSE "done",
              reply |-> reply, cb |-> r.cb, err |-> Nil]

Update(t) ==
    /\ Alive /\ Quiet
    /\ \E reply \in ServersGetReplies(servers) :
          call' = [call EXCEPT ![t] = UpdateResult(draft, reply)]
    /\ UNCHANGED <<draft, config, ServerSpec, settingsKey, instanceCounter, servers,
                   reqLog, resolved>>

(* ----------------------------- ConnectInfo ---------------------------- *)

PublicPrefix == <<"p","u","b","l","i","c">>
PrivatePrefix == <<"p","r","i","v","a","t","e">>

\* the names of the interfaces the drafts create: "publicNIC", "privateNIC"
\* and, in provider.go, "default"
NicNames ==
    {PublicPrefix \o <<"N","I","C">>, PrivatePrefix \o <<"N","I","C">>,
     <<"d","e","f","a","u","l","t">>}

\* the addresses the k-th interface of a server may have: none yet, or two
IpLists(k) ==
    {<<>>, IF k = 1 THEN <<"10.0.1.1", "10.0.1.2">> ELSE <<"10.0.2.1", "10.0.2.2">>}

\* the interfaces a server may be found with
RECURSIVE NicLists(_)
NicLists(n) ==
    IF n = 0 THEN {<<>>}
    ELSE NicLists(n - 1) \cup
         {Append(l, [Name |-> Ptr(nm), Ips |-> ips]) :
            l \in {x \in NicLists(n - 1) : Len(x) = n - 1},
            nm \in NicNames, ips \in IpLists(n)}

\* what DatacentersServersFindById may answer for an id: an error (always,
\* and only that for an id the datacenter does not hold), or the server in
\* some state with some interfaces
FindByIdReplies(srv, id) ==
    {[ok |-> FALSE, Id |-> id, State |-> "", Nics |-> <<>>]}
        \cup {[ok |-> TRUE, Id |-> id, State |-> st, Nics |-> nics] :
                st \in {x \in ProviderStates : \E k \in 1..Len(srv) : srv[k].Id = id},
                nics \in NicLists(MaxNics)}

\* the zero value provider.ConnectInfo{} and a filled one; the id is kept as
\* a pointer, empty for the zero value
EmptyConnectInfo == [ID |-> Null, InternalAddr |-> "", ExternalAddr |-> ""]

ConnectInfoReturn(reply, info, err) ==
    [op |-> "ConnectInfo", pc |-> "done", reply |-> reply, info |-> info, err |-> err]

ConnectInfoPanic(reply) ==
    [op |-> "ConnectInfo", pc |-> "panic", reply |-> reply,
     info |-> EmptyConnectInfo, err |-> Nil]

\* the loop of ConnectInfo in provider.go from the k-th interface on: ip is
\* the first address of the last interface that has one
RECURSIVE NicLoopProvider(_, _, _)
NicLoopProvider(nics, k, ip) ==
    IF k > Len(nics) THEN ip
    ELSE NicLoopProvider(nics, k + 1,
            IF Len(nics[k].Ips) > 0 THEN nics[k].Ips[1] ELSE ip)

\* the loop of ConnectInfo in the two-NIC draft from the k-th interface on
RECURSIVE NicLoop002(_, _, _)
NicLoop002(nics, k, r) ==
    IF k > Len(nics) THEN r
    ELSE NicLoop002(nics, k + 1,
            IF Len(nics[k].Ips) > 0
            THEN IF HasPrefix(nics[k].Name[1], PublicPrefix)
                 THEN [r EXCEPT !.externalIP = nics[k].Ips[1]]
                 ELSE IF HasPrefix(nics[k].Name[1], PrivatePrefix)
                 THEN [r EXCEPT !.internalIP = nics[k].Ips[1]]
                 ELSE r
            ELSE r)

ConnectInfoProvider(reply) ==
    LET ip == NicLoopProvider(reply.Nics, 1, "") IN
    IF ~reply.ok
    THEN ConnectInfoReturn(reply, EmptyConnectInfo,
            Errorf("Failed to get server", Err("DatacentersServersFindById", 0, Nil)))
    ELSE IF ip = ""
    THEN ConnectInfoReturn(reply, EmptyConnectInfo, Err("Could not find ip", 0, Nil))
    ELSE IF reply.State # "AVAILABLE"
    THEN ConnectInfoReturn(reply, EmptyConnectInfo,
            Err("Server is not in the AVAILABLE State", 0, Nil))
    ELSE ConnectInfoReturn(reply,
            [ID |-> Ptr(reply.Id), InternalAddr |-> ip, ExternalAddr |-> ip], Nil)

ConnectInfo002(reply) ==
    LET r == NicLoop002(reply.Nics, 1, [internalIP |-> "", externalIP |-> ""]) IN
    IF ~reply.ok
    THEN ConnectInfoReturn(reply, EmptyConnectInfo,
            Errorf("Failed to get server", Err("DatacentersServersFindById", 0, Nil)))
    ELSE IF r.internalIP = "" /\ r.externalIP = ""
    THEN ConnectInfoReturn(reply, EmptyConnectInfo, Err("Could not find IPs", 0, Nil))
    ELSE IF reply.State # "AVAILABLE"
    THEN ConnectInfoReturn(reply, EmptyConnectInfo,
            Err("Server is not in the AVAILABLE State", 0, Nil))
    ELSE ConnectInfoReturn(reply,
            [ID |-> Ptr(reply.Id), InternalAddr |-> r.internalIP,
             ExternalAddr |-> r.externalIP], Nil)

\* the single-NIC draft indexes the first interface and its first address
\* before it looks at the state: either index out of range panics
ConnectInfo003(reply) ==
    IF ~reply.ok
    THEN ConnectInfoReturn(reply, EmptyConnectInfo,
            Errorf("failed to get server", Err("DatacentersServersFindById", 0, Nil)))
    ELSE IF Len(reply.Nics) = 0 THEN ConnectInfoPanic(reply)
    ELSE IF Len(reply.Nics[1].Ips) = 0 THEN ConnectInfoPanic(reply)
    ELSE IF reply.State # "AVAILABLE"
    THEN ConnectInfoReturn(reply, EmptyConnectInfo,
            Err("server is not in the AVAILABLE State", 0, Nil))
    ELSE ConnectInfoReturn(reply,
            [ID |-> Ptr(reply.Id), InternalAddr |-> reply.Nics[1].Ips[1],
             ExternalAddr |-> ""], Nil)

ConnectInfo(t) ==
    /\ Alive /\ Quiet
    /\ \E instance \in IdPool :
       \E reply \in FindByIdReplies(servers, instance) :
          call' = [call EXCEPT ![t] =
                     CASE draft = "provider.go" -> ConnectInfoProvider(reply)
                       [] draft = "part_002" -> ConnectInfo002(reply)
                       [] OTHER -> ConnectInfo003(reply)]
    /\ UNCHANGED <<draft, config, ServerSpec, settingsKey, instanceCounter, servers,
                   reqLog, resolved>>

(* ------------------------ Heartbeat and Shutdown ---------------------- *)

\* what DatacentersServersFindById may answer to Heartbeat: the server, the
\* not-found signal of the provider (HTTP 404) for an id the datacenter does
\* not hold, or another failure
HeartbeatReplies(srv, id) ==
    {"failed"} \cup (IF \E k \in 1..Len(srv) : srv[k].Id = id
                     THEN {"found"} ELSE {"notfound"})

\* a Heartbeat that reports every failure of the call the same way
HeartbeatResultOneError(instance, reply) ==
    [op |-> "Heartbeat", pc |-> "done", instance |-> instance, reply |-> reply,
     err |-> IF reply = "found" THEN Nil
             ELSE Errorf("error retrieving instance",
                         Err("DatacentersServersFindById", 0, Nil))]

\* Heartbeat of the single-NIC draft
HeartbeatResult(instance, reply) ==
    [op |-> "Heartbeat", pc |-> "done", instance |-> instance, reply |-> reply,
     err |-> IF reply = "found" THEN Nil
             ELSE IF reply = "notfound" THEN Err("instance does not exist", 0, Nil)
             ELSE Errorf("error retrieving instance",
                         Err("DatacentersServersFindById", 0, Nil))]

\* only the single-NIC draft has a Heartbeat
Heartbeat(t) ==
    /\ Alive /\ Quiet
    /\ draft = "part_003"
    /\ \E instance \in IdPool :
       \E reply \in HeartbeatReplies(servers, instance) :
          call' = [call EXCEPT ![t] = HeartbeatResult(instance, reply)]
    /\ UNCHANGED <<draft, config, ServerSpec, settingsKey, instanceCounter, servers,
                   reqLog, resolved>>

\* a Shutdown that takes an instance index
ShutdownTakesIndex(t) ==
    /\ Alive /\ Quiet
    /\ call' = [call EXCEPT ![t] = [op |-> "Shutdown", pc |-> "done", err |-> Nil]]
    /\ instanceCounter' = instanceCounterAdd(instanceCounter)
    /\ UNCHANGED <<draft, config, ServerSpec, settingsKey, servers, reqLog, resolved>>

\* Shutdown returns nil and does nothing else, in every draft
Shutdown(t) ==
    /\ Alive /\ Quiet
    /\ call' = [call EXCEPT ![t] = [op |-> "Shutdown", pc |-> "done", err |-> Nil]]
    /\ UNCHANGED <<draft, config, ServerSpec, settingsKey, instanceCounter, servers,
                   reqLog, resolved>>

(* ------------------------------ Decrease ------------------------------ *)

\* a loop that ends at the first delete call that fails
RECURSIVE DecreaseLoopStops(_, _, _, _, _)
DecreaseLoopStops(ids, k, srv, willing, r) ==
    IF k > Len(ids) THEN r
    ELSE IF DeleteAccepted(srv, ids[k], willing[k])
    THEN DecreaseLoopStops(ids, k + 1, srv, willing,
            [r EXCEPT !.succeeded = Ptr(Append(@[1], ids[k])),
                      !.deletes = Append(@, ids[k])])
    ELSE [r EXCEPT !.err = errorsJoin(@, Err("delete", k, Nil)),
                   !.deletes = Append(@, ids[k])]

\* the loop of Decrease from the k-th id on: r holds succeeded and err, and
\* the ids a delete request was issued for so far
RECURSIVE DecreaseLoop(_, _, _, _, _)
DecreaseLoop(ids, k, srv, willing, r) ==
    IF k > Len(ids) THEN r
    ELSE LET ok == DeleteAccepted(srv, ids[k], willing[k]) IN
         DecreaseLoop(ids, k + 1, srv, willing,
            IF ok
            THEN [r EXCEPT !.succeeded = Ptr(Append(@[1], ids[k])),
                           !.deletes = Append(@, ids[k])]
            ELSE [r EXCEPT !.err = errorsJoin(@, Err("delete", k, Nil)),
                           !.deletes = Append(@, ids[k])])

\* a Decrease that enters the loop whatever the length of ids
DecreaseResultNoGuard(ids, srv, willing) ==
    DecreaseLoop(ids, 1, srv, willing,
        [op |-> "Decrease", pc |-> "done", ids |-> ids, willing |-> willing,
         succeeded |-> Ptr(<<>>), err |-> Nil, deletes |-> <<>>])

\* Decrease: (nil, nil) at once for no ids, else one delete request per id
DecreaseResult(ids, srv, willing) ==
    LET r == [op |-> "Decrease", pc |-> "done", ids |-> ids, willing |-> willing,
              succeeded |-> Null, err |-> Nil, deletes |-> <<>>]
    IN  IF Len(ids) = 0 THEN r
        ELSE DecreaseLoop(ids, 1, srv, willing, [r EXCEPT !.succeeded = Ptr(<<>>)])

\* the id lists of up to n ids, for the callers of Decrease
RECURSIVE IdLists(_)
IdLists(n) ==
    IF n = 0 THEN {<<>>}
    ELSE IdLists(n - 1) \cup
         {Append(l, id) : l \in {x \in IdLists(n - 1) : Len(x) = n - 1}, id \in IdPool}

Decrease(t) ==
    /\ Alive /\ Quiet
    /\ \E ids \in IdLists(MaxIds) :
       \E willing \in [1..Len(ids) -> BOOLEAN] :
          call' = [call EXCEPT ![t] = DecreaseResult(ids, servers, willing)]
    /\ UNCHANGED <<draft, config, ServerSpec, settingsKey, instanceCounter, servers,
                   reqLog, resolved>>

Next ==
    \/ \E t \in Threads : IncreaseCall(t)
    \/ \E t \in Threads : IncreaseItem(t)
    \/ \E t \in Threads : IncreasePost(t)
    \/ \E t \in Threads : IncreaseEnd(t)
    \/ \E t \in Threads : Cancel(t)
    \/ \E t \in Threads : Update(t)
    \/ \E t \in Threads : Decrease(t)
    \/ \E t \in Threads : ConnectInfo(t)
    \/ \E t \in Threads : Heartbeat(t)
    \/ \E t \in Threads : Shutdown(t)
    \/ \E t \in Threads : Return(t)

Spec == Init /\ [][Next]_vars

(* ----------------------- validateConfig on its own -------------------- *)

\* every ServerSpec with each field either at its zero value or set
AllSpecs ==
    [Type : {"", "CUBE", "ENTERPRISE", "VCPU"},
     Name : {<<>>, GitlabRunnerCluster},
     LanID : {0, 1}, PrivateLANID : {0, 1}, PublicLANID : {0, 2},
     UserData : {"", "#cloud-config"}, VolumeType : {"", "HDD"},
     TemplateID : {"", "tid-cfg"}, TemplateName : {"", "cube-xs"},
     Cores : {0, 2}, Ram : {0, 2048}, StorageSize : {0, 10},
     Template : {"tid-cfg"}]

\* a controller of one of the two drafts that validate, holding any ServerSpec
InitValidate ==
    /\ draft \in {"part_002", "part_003"}
    /\ config \in AllSpecs
    /\ ServerSpec = config
    /\ settingsKey \in KeysOf(draft)
    /\ instanceCounter = 0
    /\ servers = <<>>
    /\ call = [t \in Threads |-> Idle]
    /\ reqLog = EmptyBag
    /\ resolved = FALSE

\* validateConfig is called on the ServerSpec of the controller
ValidateConfig(t) ==
    /\ call[t].pc = "idle"
    /\ call' = [call EXCEPT ![t] =
                  [op |-> "validateConfig", pc |-> "done",
                   err |-> IF draft = "part_002" THEN validateConfig002(ServerSpec)
                           ELSE validateConfig003(ServerSpec)]]
    /\ UNCHANGED <<draft, config, ServerSpec, settingsKey, instanceCounter, servers,
                   reqLog, resolved>>

NextValidate ==
    \/ \E t \in Threads : ValidateConfig(t)
    \/ \E t \in Threads : Return(t)

SpecValidate == InitValidate /\ [][NextValidate]_vars


(* ------------------------------- claims ------------------------------- *)

IsIncrease(t) == call[t].op = "Increase"
IsUpdate(t) == call[t].op = "Update"
IsDecrease(t) == call[t].op = "Decrease"
Returned(t) == call[t].pc = "done"

\* the drafts that keep an instance index and name what they create
HasIndex == draft \in {"part_003", "part_002"}

\* error err joins the leaf error e
Joins(err, e) == \E j \in 1..Len(err) : err[j] = e[1]

StrictlyIncreasing(q) == \A j, k \in 1..Len(q) : j < k => q[j] < q[k]

\* the checks an Increase call makes before it posts have passed: the
\* validation of the ServerSpec, the validation of the key, and the template
\* lookup wherever the draft makes one
Cleared(t) ==
    /\ call[t].validated
    /\ call[t].lookup \in {"none", "ok"}
    /\ draft = "part_002" => sshKeyError(settingsKey) = Nil

\* C1: once validation and template resolution have passed, an Increase(delta)
\* that has returned has issued a create request for every one of its delta
\* items: a create call that fails for item N never keeps the create calls
\* for the items after it from being issued.
C1_EveryItemIsPosted ==
    \A t \in Threads :
        (IsIncrease(t) /\ Returned(t) /\ Cleared(t))
            => Len(call[t].posts) = call[t].delta

\* an Increase(2) has returned whose first create call failed
C1_Witness ==
    \E t \in Threads :
        /\ IsIncrease(t) /\ Returned(t) /\ Cleared(t)
        /\ call[t].delta >= 2 /\ ~call[t].posts[1]

\* C2: an Increase(delta) that made all its delta create attempts returns a
\* nil error exactly if all of them succeeded, and otherwise an error that
\* joins the error of every failed item, wherever the failed items stand
\* among the successful ones.
C2_ErrorJoinsEveryFailure ==
    \A t \in Threads :
        (IsIncrease(t) /\ Returned(t) /\ Cleared(t)
            /\ Len(call[t].posts) = call[t].delta)
            => /\ call[t].err = Nil <=> \A k \in 1..call[t].delta : call[t].posts[k]
               /\ \A k \in 1..call[t].delta :
                    ~call[t].posts[k] => Joins(call[t].err, Err("create", k, Nil))

\* C3 as claimed: an Increase(delta) whose configuration is valid (the
\* ServerSpec passes validation, the key yields a public key, the template
\* named exists) has, when it returns, taken exactly delta indices, strictly
\* increasing.
C3_ValidConfigTakesDeltaIndices ==
    \A t \in Threads :
        (HasIndex /\ IsIncrease(t) /\ Returned(t) /\ call[t].validated
            /\ (draft = "part_002" => sshKeyError(settingsKey) = Nil)
            /\ call[t].lookup # "notfound")
            => /\ Len(call[t].indices) = call[t].delta
               /\ StrictlyIncreasing(call[t].indices)

\* C3 as amended: an Increase(delta) whose configuration is valid and whose
\* template lookups, if it makes any, all succeed has, when it returns, taken
\* exactly delta indices, strictly increasing, whatever the create calls did.
C3_TakesDeltaIndices ==
    \A t \in Threads :
        (HasIndex /\ IsIncrease(t) /\ Returned(t) /\ Cleared(t))
            => /\ Len(call[t].indices) = call[t].delta
               /\ StrictlyIncreasing(call[t].indices)

\* an Increase(2) has returned all of whose create calls failed
C3_Witness ==
    \E t \in Threads :
        /\ HasIndex /\ IsIncrease(t) /\ Returned(t) /\ Cleared(t)
        /\ call[t].delta = 2 /\ call[t].posts = <<FALSE, FALSE>>
        /\ Len(call[t].indices) = 2

\* C4: no two create requests of one controller, issued or about to be
\* issued, by the same call or by calls running at the same time, carry the
\* same index or the same instance name.
C4_NoTwoRequestsShareAnIndex ==
    HasIndex =>
        /\ \A e \in BagToSet(reqLog) :
            /\ CopiesIn(e, reqLog) = 1
            /\ \A f \in BagToSet(reqLog) :
                e # f => e.index # f.index /\ e.req.Name # f.req.Name
            /\ \A t \in Threads :
                call[t].pc = "post" =>
                    e.index # call[t].index /\ e.req.Name # call[t].req[1].Name
        /\ \A t, u \in Threads :
            (t # u /\ call[t].pc = "post" /\ call[u].pc = "post")
                => /\ call[t].index # call[u].index
                   /\ call[t].req[1].Name # call[u].req[1].Name

\* two Increase calls ran at the same time and their indices interleave
C4_Witness ==
    \E t, u \in Threads :
        /\ t # u /\ IsIncrease(t) /\ IsIncrease(u)
        /\ Len(call[t].indices) = 2 /\ Len(call[u].indices) >= 1
        /\ call[t].indices[1] < call[u].indices[1]
        /\ call[u].indices[1] < call[t].indices[2]
        /\ BagCardinality(reqLog) >= 3

\* the states of the compute API that the claims give an abstract state
MappedStates == {"AVAILABLE", "BUSY", "INACTIVE"}

\* an instance that carries the ownership prefix of the pool and is in a
\* state that is reported
Reportable(item) ==
    /\ item.Name # Null
    /\ HasPrefix(item.Name[1], GitlabRunnerCluster)
    /\ item.State \in MappedStates

\* C5: Update calls fn exactly once for each listed instance whose name
\* carries the ownership prefix and whose state is AVAILABLE, BUSY or
\* INACTIVE, in listing order, and never for an instance whose name does not
\* carry the prefix.
C5_UpdateReportsOwnedOnly ==
    \A t \in Threads :
        (IsUpdate(t) /\ Returned(t) /\ call[t].reply.ok)
            => LET sel == SelectSeq(call[t].reply.items, Reportable) IN
               [k \in 1..Len(call[t].cb) |-> call[t].cb[k].id]
                    = [k \in 1..Len(sel) |-> sel[k].Id]

\* C6: an instance this controller created through Increase, named
\* "<name>-<index>", that the provider lists as AVAILABLE, BUSY or INACTIVE
\* is reported by Update, whatever valid name the ServerSpec has.
C6_CreatedInstancesAreReported ==
    \A t \in Threads :
        (IsUpdate(t) /\ Returned(t) /\ call[t].reply.ok)
            => \A k \in 1..Len(call[t].reply.items) :
                LET item == call[t].reply.items[k] IN
                (/\ item.Name # Null
                 /\ \E e \in BagToSet(reqLog) : e.req.Name = item.Name
                 /\ item.State \in MappedStates)
                    => \E j \in 1..Len(call[t].cb) : call[t].cb[j].id = item.Id

\* the mapping of the claim
CanonicalState(state) ==
    CASE state = "AVAILABLE" -> "Running"
      [] state = "BUSY"      -> "Creating"
      [] state = "INACTIVE"  -> "Deleted"
      [] OTHER               -> "none"

\* C7: the state Update reports for an instance depends on its provider state
\* alone: Running for AVAILABLE, Creating for BUSY, Deleted for INACTIVE; an
\* instance in any other state is not reported.
C7_StateMapping ==
    \A t \in Threads :
        (IsUpdate(t) /\ Returned(t) /\ call[t].reply.ok)
            => \A k \in 1..Len(call[t].reply.items) :
                LET item == call[t].reply.items[k] IN
                \A j \in 1..Len(call[t].cb) :
                    call[t].cb[j].id = item.Id
                        => /\ item.State \in MappedStates
                           /\ call[t].cb[j].state = CanonicalState(item.State)

\* the provider accepted the k-th delete request of the Decrease call of t
Accepted(t, k) == DeleteAccepted(servers, call[t].ids[k], call[t].willing[k])

\* the ids of the Decrease call of t, from the k-th on, whose delete request
\* the provider accepted
RECURSIVE AcceptedIds(_, _)
AcceptedIds(t, k) ==
    IF k > Len(call[t].ids) THEN <<>>
    ELSE (IF Accepted(t, k) THEN <<call[t].ids[k]>> ELSE <<>>)
            \o AcceptedIds(t, k + 1)

\* C8: Decrease(ids) with ids not empty issues a delete call for every id,
\* whatever the other delete calls did; it returns the ids whose delete call
\* succeeded, in input order, and an error that is nil exactly if every
\* delete succeeded and that otherwise joins the error of every failed id.
C8_DecreasePartialFailure ==
    \A t \in Threads :
        (IsDecrease(t) /\ Returned(t) /\ call[t].ids # <<>>)
            => /\ call[t].deletes = call[t].ids
               /\ call[t].succeeded = Ptr(AcceptedIds(t, 1))
               /\ call[t].err = Nil <=> \A k \in 1..Len(call[t].ids) : Accepted(t, k)
               /\ \A k \in 1..Len(call[t].ids) :
                    ~Accepted(t, k) => Joins(call[t].err, Err("delete", k, Nil))

\* a Decrease of two ids has returned whose first delete call failed and
\* whose second succeeded
C8_Witness ==
    \E t \in Threads :
        /\ IsDecrease(t) /\ Returned(t) /\ Len(call[t].ids) = 2
        /\ ~Accepted(t, 1) /\ Accepted(t, 2)
        /\ call[t].succeeded = Ptr(<<call[t].ids[2]>>)

\* C9: Decrease with no ids returns (nil, nil) and issues no delete call.
C9_DecreaseNothing ==
    \A t \in Threads :
        (IsDecrease(t) /\ Returned(t) /\ call[t].ids = <<>>)
            => /\ call[t].succeeded = Null
               /\ call[t].err = Nil
               /\ call[t].deletes = <<>>

\* a Decrease with no ids has returned, in a datacenter that holds a server
C9_Witness ==
    \E t \in Threads :
        IsDecrease(t) /\ Returned(t) /\ call[t].ids = <<>> /\ servers # <<>>

\* the validation rules as the design states them, for the LAN ids the draft
\* has
RulesHold(d, spec) ==
    /\ spec.Type # "" /\ spec.Name # <<>>
    /\ IF d = "part_003" THEN spec.LanID # 0
       ELSE spec.PublicLANID # 0 /\ spec.PrivateLANID # 0
    /\ spec.UserData # "" /\ spec.VolumeType # ""
    /\ spec.Type \in {"ENTERPRISE", "CUBE"}
    /\ spec.Type = "CUBE" => (spec.TemplateID # "" \/ spec.TemplateName # "")
    /\ spec.Type = "ENTERPRISE"
        => (spec.Cores # 0 /\ spec.Ram # 0 /\ spec.StorageSize # 0)

\* C10: with a ServerSpec that breaks a validation rule, every Increase
\* returns (0, error); no create request and no template listing is ever
\* issued, no index is taken and no instance is created.
C10_InvalidSpecCreatesNothing ==
    (HasIndex /\ ~RulesHold(draft, ServerSpec))
        => /\ instanceCounter = 0
           /\ reqLog = EmptyBag
           /\ servers \in InitialDatacenters
           /\ \A t \in Threads :
                IsIncrease(t)
                    => /\ Returned(t)
                       /\ call[t].succeeded = 0 /\ call[t].err # Nil
                       /\ call[t].posts = <<>> /\ call[t].listings = 0
                       /\ call[t].indices = <<>>

\* an Increase(delta) with delta > 0 has returned for a ServerSpec that
\* breaks a rule
C10_Witness ==
    \E t \in Threads :
        /\ HasIndex /\ ~RulesHold(draft, ServerSpec)
        /\ IsIncrease(t) /\ Returned(t) /\ call[t].delta > 0

IsConnectInfo(t) == call[t].op = "ConnectInfo"

\* the specification was configured as a CUBE, by template id or by name
ConfiguredById == config.Type = "CUBE" /\ config.TemplateID # ""
ConfiguredByName == config.Type = "CUBE" /\ config.TemplateID = ""

\* C11: when the template of a CUBE configured by name cannot be resolved
\* (no template has the name, or the listing fails), Increase fails as a
\* whole: it has issued no create request and reports no instance created.
C11_UnresolvedTemplateCreatesNothing ==
    \A t \in Threads :
        (/\ IsIncrease(t) /\ Returned(t) /\ ConfiguredByName
         /\ call[t].lookup \in {"failed", "notfound"})
            => call[t].posts = <<>> /\ call[t].succeeded = 0

\* C12: with a valid CUBE specification that has template_id set, Increase
\* never lists the templates and every create request carries the configured
\* template_id, whether or not template_name is set too.
C12_TemplateIdWins ==
    (HasIndex /\ ConfiguredById /\ RulesHold(draft, config))
        => /\ \A t \in Threads : IsIncrease(t) => call[t].listings = 0
           /\ \A e \in BagToSet(reqLog) :
                e.req.TemplateUuid = Ptr(config.TemplateID)

\* the template listings the call of t, if it is an Increase, has issued
PrevListings(t) == IF IsIncrease(t) THEN call[t].listings ELSE 0

\* this step issues a template listing on behalf of t
ListsTemplates(t) ==
    call'[t].op = "Increase" /\ call'[t].listings > PrevListings(t)

\* C13: a template listing is issued at most once per Increase call, and
\* never again once a listing has given the controller the id of the name.
C13_TemplateListedOnce ==
    [][\A t \in Threads :
         ListsTemplates(t) => (~resolved /\ PrevListings(t) = 0)]_vars

\* C14: ConnectInfo on an instance found in a state other than AVAILABLE
\* returns an error and the empty ConnectInfo, whatever interfaces and
\* addresses the instance has.
C14_NotAvailableIsAnError ==
    \A t \in Threads :
        (IsConnectInfo(t) /\ call[t].reply.ok /\ call[t].reply.State # "AVAILABLE")
            => /\ Returned(t)
               /\ call[t].err # Nil
               /\ call[t].info = EmptyConnectInfo

\* the k-th interface of the reply has an address and a name with the prefix
Yields(reply, k, prefix) ==
    /\ reply.Nics[k].Ips # <<>>
    /\ HasPrefix(reply.Nics[k].Name[1], prefix)

\* addr is the first address of an interface with the prefix, or empty if no
\* interface with the prefix has an address
FirstIpOf(reply, prefix, addr) ==
    IF \E k \in 1..Len(reply.Nics) : Yields(reply, k, prefix)
    THEN \E k \in 1..Len(reply.Nics) :
            Yields(reply, k, prefix) /\ addr = reply.Nics[k].Ips[1]
    ELSE addr = ""

\* C15: ConnectInfo on an AVAILABLE instance returns the first address of a
\* "public" interface as external and of a "private" interface as internal
\* address (with a single interface: its first address as internal address),
\* and returns an error when no interface yields an address.
C15_AddressesByInterfaceName ==
    \A t \in Threads :
        (IsConnectInfo(t) /\ call[t].reply.ok /\ call[t].reply.State = "AVAILABLE")
            => LET reply == call[t].reply
                   n == Len(reply.Nics)
               IN  /\ (\A k \in 1..n : reply.Nics[k].Ips = <<>>)
                        => Returned(t) /\ call[t].err # Nil
                   /\ (draft = "part_002"
                        /\ \E k \in 1..n : Yields(reply, k, PublicPrefix)
                                            \/ Yields(reply, k, PrivatePrefix))
                        => /\ Returned(t) /\ call[t].err = Nil
                           /\ FirstIpOf(reply, PublicPrefix, call[t].info.ExternalAddr)
                           /\ FirstIpOf(reply, PrivatePrefix, call[t].info.InternalAddr)
                   /\ (draft # "part_002" /\ n = 1 /\ reply.Nics[1].Ips # <<>>)
                        => /\ Returned(t) /\ call[t].err = Nil
                           /\ call[t].info.InternalAddr = reply.Nics[1].Ips[1]

\* the create requests of q that the provider accepted
Accepts(q) == Len(SelectSeq(q, LAMBDA ok : ok))

\* C16: on every return path of Increase the returned count is the number of
\* create requests of the call that the provider accepted.
C16_CountIsAcceptedCreates ==
    \A t \in Threads :
        (IsIncrease(t) /\ Returned(t)) => call[t].succeeded = Accepts(call[t].posts)

\* an Increase has returned an error from the middle of the batch, after a
\* create request that the provider accepted
C16_Witness ==
    \E t \in Threads :
        /\ IsIncrease(t) /\ Returned(t)
        /\ call[t].n < call[t].delta \/ call[t].built < call[t].n
        /\ call[t].err # Nil
        /\ call[t].posts = <<TRUE>> /\ call[t].succeeded = 1

\* C17: once the caller has cancelled the context of an Increase, no further
\* item is started: no index is taken and no create request is made.
C17_NoItemAfterCancel ==
    \A t \in Threads :
        (IsIncrease(t) /\ call[t].ctx = "cancelled")
            => call[t].n = call[t].atCancel

\* C18: nothing is retried: an Increase(delta) issues at most delta create
\* requests, at most one for each index it took, and a Decrease(ids) issues
\* one delete request for each element of ids.
C18_NoRetry ==
    /\ \A t \in Threads :
        IsIncrease(t)
            => /\ Len(call[t].posts) <= call[t].delta
               /\ HasIndex => Len(call[t].posts) <= Len(call[t].indices)
    /\ HasIndex => \A e \in BagToSet(reqLog) : CopiesIn(e, reqLog) = 1
    /\ \A t \in Threads :
        (IsDecrease(t) /\ Returned(t)) => Len(call[t].deletes) = Len(call[t].ids)

\* an Increase(2) has returned whose two create requests both failed
C18_Witness ==
    \E t \in Threads :
        /\ IsIncrease(t) /\ Returned(t) /\ HasIndex
        /\ call[t].delta = 2 /\ call[t].posts = <<FALSE, FALSE>>
        /\ BagCardinality(reqLog) = 2

\* C19: no operation ends in a crash of the process.
C19_NoCrash == \A t \in Threads : call[t].pc # "panic"

\* C20: every create request built from a valid specification is named
\* "<name>-<index>" for the index it was given; for ENTERPRISE it carries
\* cores, ram and storage_size of the specification and no template id, for
\* CUBE a template id and no cores, ram or storage_size.
C20_RequestShape ==
    HasIndex
        => \A e \in BagToSet(reqLog) :
            /\ e.req.Name = Ptr(config.Name \o <<"-">> \o FormatD(e.index))
            /\ config.Type = "ENTERPRISE"
                => /\ e.req.TemplateUuid = Null
                   /\ e.req.Cores = Ptr(config.Cores)
                   /\ e.req.Ram = Ptr(config.Ram)
                   /\ e.req.Size = Ptr(config.StorageSize)
            /\ config.Type = "CUBE"
                => /\ e.req.TemplateUuid # Null /\ e.req.TemplateUuid # Ptr("")
                   /\ e.req.Cores = Null /\ e.req.Ram = Null /\ e.req.Size = Null

IsHeartbeat(t) == call[t].op = "Heartbeat"

\* C21: validateConfig accepts a ServerSpec exactly if every rule holds; a
\* CUBE with neither template field is rejected, one with only
\* template_name is accepted.
C21_ValidateConfigIffRules ==
    \A t \in Threads :
        call[t].op = "validateConfig"
            => (call[t].err = Nil <=> RulesHold(draft, ServerSpec))

\* validateConfig has accepted a CUBE that has a template_name and no
\* template_id
C21_Witness ==
    \E t \in Threads :
        /\ call[t].op = "validateConfig" /\ call[t].err = Nil
        /\ ServerSpec.Type = "CUBE"
        /\ ServerSpec.TemplateID = "" /\ ServerSpec.TemplateName # ""

\* an Increase of t is in its loop, where it reads the ServerSpec
ReadsServerSpec(t) == IsIncrease(t) /\ call[t].pc \in {"loop", "post"}

\* C22: no operation writes a field of the controller, the ServerSpec
\* included, that an operation running at the same time reads; the instance
\* index is the one thing written, and that atomically.
C22_NoWriteUnderAReader ==
    [][(ServerSpec' # ServerSpec \/ settingsKey' # settingsKey)
          => \A t \in Threads : ~ReadsServerSpec(t)]_vars

\* C23: Heartbeat returns nil exactly if the server was found; the error for
\* the not-found signal says that the instance does not exist and differs
\* from the error for any other failure.
C23_HeartbeatTellsGoneFromFailed ==
    \A t \in Threads :
        IsHeartbeat(t)
            => /\ Returned(t)
               /\ call[t].err = Nil <=> call[t].reply = "found"
               /\ call[t].reply = "notfound"
                    <=> call[t].err = Err("instance does not exist", 0, Nil)

\* Heartbeat has returned for an id the datacenter does not hold, which the
\* provider answered with its not-found signal
C23_Witness ==
    \E t \in Threads :
        /\ IsHeartbeat(t) /\ Returned(t) /\ call[t].reply = "notfound"
        /\ \A k \in 1..Len(servers) : servers[k].Id # call[t].instance

\* the ids a template listing can give for a template name
ResolvedIds(templateName) ==
    UNION {{l[k].Id : k \in {j \in 1..Len(l) : l[j].Name = templateName}} :
            l \in TemplateListings}

\* C24: no operation changes a field of the ServerSpec or of the settings
\* other than template_id, and template_id changes only to the id that a
\* template listing gives for template_name.
C24_OnlyTemplateIdIsCached ==
    [][/\ settingsKey' = settingsKey
       /\ [ServerSpec' EXCEPT !.TemplateID = ServerSpec.TemplateID] = ServerSpec
       /\ ServerSpec'.TemplateID # ServerSpec.TemplateID
            => ServerSpec'.TemplateID \in ResolvedIds(ServerSpec.TemplateName)]_vars

\* C25: Update returns the error of a listing that failed and calls fn not
\* once; it returns nil when the listing succeeded, whatever the states and
\* names of the listed instances.
C25_UpdateReturnsTheListingError ==
    \A t \in Threads :
        IsUpdate(t)
            => /\ Returned(t)
               /\ call[t].reply.ok => call[t].err = Nil
               /\ ~call[t].reply.ok
                    => /\ call[t].err = Err("DatacentersServersGet", 0, Nil)
                       /\ call[t].cb = <<>>

\* this step is a call of t to an operation other than Increase
OtherThanIncrease(t) ==
    /\ call[t].op = "none"
    /\ call'[t].op \in {"Update", "ConnectInfo", "Shutdown", "Decrease", "Heartbeat"}

\* this step is an Increase of t taking the next index
TakesIndex(t) ==
    /\ IsIncrease(t) /\ call'[t].op = "Increase"
    /\ Len(call'[t].indices) = Len(call[t].indices) + 1
    /\ instanceCounter' = instanceCounter + 1

\* C26: Update, ConnectInfo, Shutdown and Decrease issue no create request
\* and leave the instance index and the datacenter as they are; the index
\* moves only when an Increase takes an index, one at a time.
C26_OnlyIncreaseMovesTheIndex ==
    [][/\ \A t \in Threads :
            OtherThanIncrease(t)
                => /\ instanceCounter' = instanceCounter
                   /\ reqLog' = reqLog
                   /\ servers' = servers
       /\ instanceCounter' # instanceCounter
            => \E t \in Threads : TakesIndex(t)]_vars

\* a Decrease has returned, with a delete request accepted, after an
\* Increase that took an index and created a server
C26_Witness ==
    \E t \in Threads :
        /\ IsDecrease(t) /\ Returned(t)
        /\ call[t].succeeded # Null /\ call[t].succeeded # Ptr(<<>>)
        /\ instanceCounter > 0 /\ reqLog # EmptyBag

====
